---- MODULE Spec2Model ----
(***************************************************************************)
(* Relay hub of src/server.py: the registry of connected websocket peers,  *)
(* the table of pending capture requests, the inbound router of            *)
(* websocket_handler, the capture command (capture_request_handler) and    *)
(* the fire-and-forget commands (predict, control, broadcast, score).      *)
(*                                                                         *)
(* All handlers run as coroutines on one asyncio event loop: a handler     *)
(* runs without interruption from one await to the next, so every action   *)
(* below is the code between two suspension points.  The suspension points *)
(* are `await ws.send_str`, `await b.close()`, `await asyncio.wait_for`    *)
(* and the websocket handler's `async for msg in ws`.                      *)
(*                                                                         *)
(* asyncio.wait_for is modelled by its documented behaviour on CPython 3.8 *)
(* and later: it returns the future's result when the future completes     *)
(* first; when the timer fires first it cancels the future and raises      *)
(* TimeoutError in the waiting task, which runs one loop iteration later;  *)
(* a task awaiting a future that some other task cancelled gets            *)
(* CancelledError, which `except Exception` does not catch.                *)
(***************************************************************************)
EXTENDS Integers, Sequences, FiniteSets, TLC

\* ------------------------------------------------------------------ bounds
MaxConns == 1
MaxCaptures == 2
MaxBcasts == 1
MaxPeers == 2

\* ---------------------------------------------------------- JSON values
\* JSON values are written as their Python literals; "None" is an absent
\* field (dict.get returns None).
ReqIdVals == {"None", "0", "1"}
MsgIdVals == {"None", "0", "'1'", "'r9'", "'server_req_2'"}

\* Python truth value of a JSON value (the operand of `or`).
Truthy(v) == v \notin {"None", "''", "0"}

\* a or b
PyOr(a, b) == IF Truthy(a) THEN a ELSE b

\* str(v)
Str(v) ==
  CASE v = "None" -> "None"
    [] v = "''" -> ""
    [] v = "0" -> "0"
    [] v = "1" -> "1"
    [] v = "'1'" -> "1"
    [] v = "'r9'" -> "r9"
    [] v = "'server_req_2'" -> "server_req_2"
    [] OTHER -> v

\* f"server_req_{ms}_{rand}": one fresh identifier per call.
GeneratedId(r) == "server_req_" \o ToString(r)

\* ------------------------------------------------------ pending table
NoEntry == [future |-> 0, return_base64 |-> FALSE]

\* a registration that stores nothing
TablePutSkipped(table, key, entry) == table

\* pending_captures[key] = entry
TablePut(table, key, entry) ==
  [k \in (DOMAIN table) \cup {key} |-> IF k = key THEN entry ELSE table[k]]

\* pending_captures.get(key)
TableGet(table, key) == IF key \in DOMAIN table THEN table[key] ELSE NoEntry

\* the table after pending_captures.pop(key, None)
TablePop(table, key) == [k \in (DOMAIN table) \ {key} |-> table[k]]

EmptyTable == [k \in {} |-> NoEntry]

\* --------------------------------------------------------------- futures
NoResult == [kind |-> "", requestId |-> "None"]
NewFuture == [state |-> "pending", result |-> NoResult]
NoFuture == [state |-> "none", result |-> NoResult]

\* fut.done()
FutDone(f) == f.state \in {"result", "cancelled"}

\* ------------------------------------------------------------- responses
NoScore == [ai1 |-> -1, ai2 |-> -1, match |-> -1]

NoResponse ==
  [status |-> 0, ok |-> FALSE, error |-> "", detail |-> "",
   result |-> NoResult, requestId |-> "None", sent |-> -1, score |-> NoScore]

\* CancelledError leaves the handler: no response is produced by it.
Cancelled == [NoResponse EXCEPT !.status = -1, !.error = "CancelledError"]

\* the frame of a handler call that has not started
Idle ==
  [pc |-> "idle", kind |-> "", req_id |-> "None", return_base64 |-> FALSE,
   snap |-> {}, todo |-> {}, bad |-> <<>>, closing |-> 0, sent |-> 0, fut |-> 0,
   alone |-> TRUE, resp |-> NoResponse]

\* a frame after `return web.json_response(...)`: only the response remains
Returned(resp) == [Idle EXCEPT !.pc = "done", !.resp = resp]

Range(seq) == {seq[i] : i \in DOMAIN seq}

\* the last step was not a step of the inbound router
NotRouted == [log |-> "none", keys |-> {}, primary |-> ""]

VARIABLES
  sockets,            \* each websocket: "new" (not yet connected), "open", "closed"
  connected_clients,  \* set of websockets in the registry
  pending_captures,   \* key -> [future, return_base64]
  futs,               \* the future created by each capture request
  cap,                \* the frame of each capture_request_handler call
  bc,                 \* the frame of each predict/control/broadcast/score call
  score_state,        \* [ai1, ai2, match]
  routed,             \* what the inbound router logged in the last step, if it
                      \* ran, the keys named by the message it routed and the
                      \* str of its primary identifier
  got                 \* per capture request, the image replies naming its key that
                      \* were routed while it was in flight: "none", "oversized"
                      \* (every one was too large) or "mixed"

vars ==
  <<sockets, connected_clients, pending_captures, futs, cap, bc, score_state,
    routed, got>>

\* websockets whose `async for msg in ws` loop is running
ws_open == {ws \in DOMAIN sockets : sockets[ws] = "open"}

\* the state after module import, with room for nws connections, ncap capture
\* calls and nbc fire-and-forget calls
InitWith(nws, ncap, nbc) ==
  /\ sockets = [ws \in 1..nws |-> "new"]
  /\ connected_clients = {}
  /\ pending_captures = EmptyTable
  /\ futs = [r \in 1..ncap |-> NoFuture]
  /\ cap = [r \in 1..ncap |-> Idle]
  /\ bc = [b \in 1..nbc |-> Idle]
  /\ score_state = [ai1 |-> 0, ai2 |-> 0, match |-> 1]
  /\ routed = NotRouted
  /\ got = [r \in 1..ncap |-> "none"]

\* a broadcast in flight sees the registry changed by another task
Disturbed(frames) ==
  [x \in DOMAIN frames |->
     IF frames[x].pc \in {"send", "close"}
       THEN [frames[x] EXCEPT !.alone = FALSE] ELSE frames[x]]

\* ------------------------------------------------------ websocket_handler
\* connect: the new websocket joins the registry and its loop starts
WsConnect(ws) ==
  /\ sockets[ws] = "new"
  /\ \A w \in DOMAIN sockets : w < ws => sockets[w] # "new"
  /\ sockets' = [sockets EXCEPT ![ws] = "open"]
  /\ connected_clients' = connected_clients \cup {ws}
  /\ bc' = Disturbed(bc)
  /\ routed' = NotRouted
  /\ UNCHANGED got
  /\ UNCHANGED <<pending_captures, futs, cap, score_state>>

\* the loop ends (peer closed, or transport error): the finally block
WsDisconnect(ws) ==
  /\ sockets[ws] = "open"
  /\ sockets' = [sockets EXCEPT ![ws] = "closed"]
  /\ connected_clients' = connected_clients \ {ws}
  /\ bc' = Disturbed(bc)
  /\ routed' = NotRouted
  /\ UNCHANGED got
  /\ UNCHANGED <<pending_captures, futs, cap, score_state>>

\* ------------------------------------------------ inbound message router
MAX_CAPTURE_BYTES == 10 * 1024 * 1024

\* imageData: absent, not decodable, or a base64 text of some decoded size
ImageVals == {"None", "bad", "small", "limit", "big"}

\* The messages tried: every combination of the three identifier fields on a
\* storable image, every image with each captureId, the other types, and
\* replies that carry a server-generated identifier as requestId.
Messages ==
  [type : {"image_capture"}, captureId : {"None", "'1'", "'r9'"},
   requestId : {"None", "0", "'1'"}, captureTimestamp : {"None", "0", "'1'"},
   image : {"small"}]
  \cup [type : {"image_capture"}, captureId : {"None", "'1'", "'r9'"},
        requestId : {"None"}, captureTimestamp : {"None"}, image : ImageVals]
  \cup [type : {"frame_image", "pong"}, captureId : {"'1'"}, requestId : {"None"},
        captureTimestamp : {"None"}, image : {"small"}]
  \cup [type : {"image_capture"}, captureId : {"'1'", "'r9'"},
        requestId : {"'server_req_2'"}, captureTimestamp : {"None"},
        image : {"small"}]

\* a message and whether the write of its file succeeds
Deliveries ==
  (Messages \X {TRUE})
  \cup {<<data, FALSE>> : data \in
          [type : {"image_capture"}, captureId : {"None", "'1'", "'r9'"},
           requestId : {"None"}, captureTimestamp : {"None"}, image : {"small"}]}

\* base64.b64decode(b64_payload) succeeds
Decodes(image) == image \in {"small", "limit", "big"}

\* len(binary)
DecodedLen(image) ==
  CASE image = "small" -> 1024
    [] image = "limit" -> MAX_CAPTURE_BYTES
    [] image = "big" -> MAX_CAPTURE_BYTES + 1
    [] OTHER -> 0

\* len(binary) > MAX_CAPTURE_BYTES
TooLarge(image) == DecodedLen(image) > MAX_CAPTURE_BYTES

\* capture_id = captureId or requestId or captureTimestamp
CaptureId(data) == PyOr(PyOr(data.captureId, data.requestId), data.captureTimestamp)

\* the alias read from the wrong field
AltReqTimestamp(data) == data.captureTimestamp

\* alt_req = data.get("requestId")
AltReq(data) == data.requestId

\* _resolve_entry without its `not fut.done()`
SettableAlways(f) == TRUE

\* `fut and not fut.done()` of _resolve_entry
Settable(f) == ~FutDone(f)

\* _resolve_entry(entry, key_value): whether it resolves the entry's future
Resolves(entry, fs) == entry # NoEntry /\ Settable(fs[entry.future])

\* the futures after _resolve_entry(entry, key_value)
ResolveEntry(entry, key_value, fs) ==
  IF Resolves(entry, fs)
    THEN [fs EXCEPT ![entry.future] =
            [state |-> "result",
             result |-> [kind |-> IF entry.return_base64 THEN "image_base64"
                                                         ELSE "filename",
                         requestId |-> key_value]]]
    ELSE fs

\* an alias tried whatever the primary did
TryAltAlways(alt_req, resolved) == alt_req # "None"

\* `if alt_req is not None and not resolved` (line 145)
TryAlt(alt_req, resolved) == alt_req # "None" /\ ~resolved

\* the pops and resolutions of one saved image message (lines 116-152)
RouteSaved(data, table, fs) ==
  LET capture_id == CaptureId(data)
      try1 == capture_id # "None"
      entry == IF try1 THEN TableGet(table, Str(capture_id)) ELSE NoEntry
      table1 == IF try1 THEN TablePop(table, Str(capture_id)) ELSE table
      resolved1 == try1 /\ Resolves(entry, fs)
      fs1 == IF try1 THEN ResolveEntry(entry, capture_id, fs) ELSE fs
      alt_req == AltReq(data)
      try2 == TryAlt(alt_req, resolved1)
      entry2 == IF try2 THEN TableGet(table1, Str(alt_req)) ELSE NoEntry
      table2 == IF try2 THEN TablePop(table1, Str(alt_req)) ELSE table1
      resolved2 == try2 /\ Resolves(entry2, fs1)
      fs2 == IF try2 THEN ResolveEntry(entry2, alt_req, fs1) ELSE fs1
  IN [table |-> table2, futs |-> fs2,
      log |-> IF resolved1 \/ resolved2 THEN "resolved" ELSE "unmatched"]

\* a router that resolves before it saves
RouteResolveFirst(data, save_ok, table, fs) ==
  IF \/ data.type \notin {"image_capture", "frame_image"}
     \/ data.image = "None"
     \/ ~Decodes(data.image)
     \/ TooLarge(data.image)
    THEN [table |-> table, futs |-> fs, log |-> "ignored"]
    ELSE [RouteSaved(data, table, fs) EXCEPT
            !.log = IF save_ok THEN @ ELSE "save failed"]

\* one TEXT message of the `async for msg in ws` loop (lines 52-156)
Route(data, save_ok, table, fs) ==
  IF data.type \notin {"image_capture", "frame_image"}
    THEN [table |-> table, futs |-> fs, log |-> "ignored"]
  ELSE IF data.image = "None"
    THEN [table |-> table, futs |-> fs, log |-> "no image field"]
  ELSE IF ~Decodes(data.image)
    THEN [table |-> table, futs |-> fs, log |-> "decode failed"]
  ELSE IF TooLarge(data.image)
    THEN [table |-> table, futs |-> fs, log |-> "too large"]
  ELSE IF ~save_ok
    THEN [table |-> table, futs |-> fs, log |-> "save failed"]
  ELSE RouteSaved(data, table, fs)

\* a capture request between its registration and its return
InFlight(f) == f.pc \in {"send", "close", "wait", "expired"}

\* str(req_id) of a frame
KeyOf(f) == Str(f.req_id)

\* the keys the message names: str of its primary identifier (line 138) and
\* of its requestId alias (line 146)
NamedKeys(data) == {Str(v) : v \in {CaptureId(data), data.requestId} \ {"None"}}

\* the message names the key
Names(data, key) == key \in NamedKeys(data)

\* a message arrives on an open websocket and is routed
WsMessage(data, save_ok) ==
  /\ ws_open # {}
  /\ LET out == Route(data, save_ok, pending_captures, futs)
     IN /\ pending_captures' = out.table
        /\ futs' = out.futs
        /\ routed' = [log |-> out.log, keys |-> NamedKeys(data),
                      primary |-> Str(CaptureId(data))]
        /\ got' = [r \in DOMAIN cap |->
                     IF InFlight(cap[r]) /\ Names(data, KeyOf(cap[r]))
                            /\ out.log \notin {"ignored", "no image field"}
                       THEN IF out.log = "too large" /\ got[r] # "mixed"
                              THEN "oversized" ELSE "mixed"
                       ELSE got[r]]
  /\ UNCHANGED <<sockets, connected_clients, cap, bc, score_state>>

\* ------------------------------------------------ capture_request_handler
\* the check of the empty registry left out
NoClientsNever(clients) == FALSE

\* `if not connected_clients`
NoClients(clients) == clients = {}

\* req_id = raw_req_id or f"server_req_..."
ReqId(raw_req_id, r) == PyOr(raw_req_id, GeneratedId(r))

\* req_key = str(req_id)
ReqKey(f) == KeyOf(f)

\* the entry whose future the handler awaits (line 246)
AwaitedEntry(f, table) == TableGet(table, ReqKey(f))

\* lines 246-254: fetch the entry, then await asyncio.wait_for(fut, timeout)
BeginWait(f, table, fs) ==
  LET entry == AwaitedEntry(f, table)
  IN IF entry = NoEntry
       THEN Returned([NoResponse EXCEPT !.status = 500, !.error = "internal",
                                        !.detail = "missing_pending_entry"])
     ELSE IF fs[entry.future].state = "result"
       THEN Returned([NoResponse EXCEPT !.status = 200, !.ok = TRUE,
                                        !.result = fs[entry.future].result])
     ELSE IF fs[entry.future].state = "cancelled"
       THEN Returned(Cancelled)
     ELSE [f EXCEPT !.pc = "wait", !.fut = entry.future]

\* connected_clients.discard(b), as the broadcasts in flight see it
Discard(b) ==
  /\ connected_clients' = connected_clients \ {b}
  /\ bc' = IF b \in connected_clients THEN Disturbed(bc) ELSE bc

\* lines 236-251 from the end of the send loop to the next suspension:
\* discard the next failed websocket and await its close, or begin the wait
CaptureAfterSends(r, f, table, fs) ==
  IF f.closing < Len(f.bad)
    THEN /\ Discard(f.bad[f.closing + 1])
         /\ cap' = [cap EXCEPT ![r] = [f EXCEPT !.pc = "close",
                                                !.closing = f.closing + 1]]
    ELSE /\ UNCHANGED <<connected_clients, bc>>
         /\ cap' = [cap EXCEPT ![r] = BeginWait(f, table, fs)]

\* lines 195-232: up to the first `await ws.send_str`
CaptureStart(r, raw_req_id, return_base64) ==
  /\ cap[r].pc = "idle"
  /\ r > 1 => cap[r - 1].pc # "idle"
  /\ IF NoClients(connected_clients)
       THEN /\ cap' = [cap EXCEPT ![r] =
                        Returned([NoResponse EXCEPT
                                    !.status = 503,
                                    !.error = "no_connected_clients"])]
            /\ UNCHANGED <<connected_clients, pending_captures, futs, bc>>
       ELSE LET f == [Idle EXCEPT !.pc = "send",
                                  !.kind = "capture",
                                  !.req_id = ReqId(raw_req_id, r),
                                  !.return_base64 = return_base64,
                                  !.snap = connected_clients,
                                  !.todo = connected_clients,
                                  !.fut = r]
                fs == [futs EXCEPT ![r] = NewFuture]
                table == TablePut(pending_captures, ReqKey(f),
                                  [future |-> r, return_base64 |-> return_base64])
            IN /\ futs' = fs
               /\ pending_captures' = table
               /\ IF f.todo = {}
                    THEN CaptureAfterSends(r, f, table, fs)
                    ELSE /\ cap' = [cap EXCEPT ![r] = f]
                         /\ UNCHANGED <<connected_clients, bc>>
  /\ routed' = NotRouted
  /\ UNCHANGED got
  /\ UNCHANGED <<sockets, score_state>>

\* a handler that lists every websocket it tried as failed
BadAlways(bad, ws, sent) == Append(bad, ws)

\* the websockets the handler discards: the list `bad` after one send
Bad(bad, ws, sent) == IF sent THEN bad ELSE Append(bad, ws)

\* one `await ws.send_str(text)` returns (sent) or raises (not sent); the
\* frame's `sent` counts the sends that returned (the handler keeps no such
\* counter)
CaptureSend(r, ws, sent) ==
  /\ cap[r].pc = "send"
  /\ ws \in cap[r].todo
  /\ sent => ws \in ws_open
  /\ LET f == [cap[r] EXCEPT !.todo = @ \ {ws},
                             !.sent = IF sent THEN @ + 1 ELSE @,
                             !.bad = Bad(@, ws, sent)]
     IN IF f.todo = {}
          THEN CaptureAfterSends(r, f, pending_captures, futs)
          ELSE /\ cap' = [cap EXCEPT ![r] = f]
               /\ UNCHANGED <<connected_clients, bc>>
  /\ routed' = NotRouted
  /\ UNCHANGED got
  /\ UNCHANGED <<sockets, pending_captures, futs, score_state>>

\* one `await b.close()` returns: the websocket is closed
CaptureClose(r) ==
  /\ cap[r].pc = "close"
  /\ sockets' = [sockets EXCEPT ![cap[r].bad[cap[r].closing]] = "closed"]
  /\ CaptureAfterSends(r, cap[r], pending_captures, futs)
  /\ routed' = NotRouted
  /\ UNCHANGED got
  /\ UNCHANGED <<pending_captures, futs, score_state>>

\* wait_for returns the result of the awaited future (lines 251-254)
CaptureResult(r) ==
  /\ cap[r].pc = "wait"
  /\ futs[cap[r].fut].state = "result"
  /\ cap' = [cap EXCEPT ![r] =
              Returned([NoResponse EXCEPT !.status = 200, !.ok = TRUE,
                                          !.result = futs[cap[r].fut].result])]
  /\ routed' = NotRouted
  /\ UNCHANGED got
  /\ UNCHANGED <<sockets, connected_clients, pending_captures, futs, bc, score_state>>

\* the awaited future was cancelled by another task: CancelledError
CaptureCancelled(r) ==
  /\ cap[r].pc = "wait"
  /\ futs[cap[r].fut].state = "cancelled"
  /\ cap' = [cap EXCEPT ![r] = Returned(Cancelled)]
  /\ routed' = NotRouted
  /\ UNCHANGED got
  /\ UNCHANGED <<sockets, connected_clients, pending_captures, futs, bc, score_state>>

\* the timer of wait_for fires first: the awaited future is cancelled
CaptureTimeout(r) ==
  /\ cap[r].pc = "wait"
  /\ futs[cap[r].fut].state = "pending"
  /\ futs' = [futs EXCEPT ![cap[r].fut] = [@ EXCEPT !.state = "cancelled"]]
  /\ cap' = [cap EXCEPT ![r] = [@ EXCEPT !.pc = "expired"]]
  /\ routed' = NotRouted
  /\ UNCHANGED got
  /\ UNCHANGED <<sockets, connected_clients, pending_captures, bc, score_state>>

\* a timeout branch that empties the table
ExpireEntryAll(table, key) == EmptyTable

\* the timeout branch without its pop
ExpireEntryKeep(table, key) == table

\* pending_captures.pop(req_key, None) of the timeout branch (line 259)
ExpireEntry(table, key) == TablePop(table, key)

\* except asyncio.TimeoutError (lines 255-260)
CaptureExpire(r) ==
  /\ cap[r].pc = "expired"
  /\ futs' = [futs EXCEPT ![cap[r].fut] =
               IF FutDone(@) THEN @ ELSE [@ EXCEPT !.state = "cancelled"]]
  /\ pending_captures' = ExpireEntry(pending_captures, ReqKey(cap[r]))
  /\ cap' = [cap EXCEPT ![r] =
              Returned([NoResponse EXCEPT
                          !.status = 504,
                          !.error = "timeout_waiting_for_capture",
                          !.requestId = cap[r].req_id])]
  /\ routed' = NotRouted
  /\ UNCHANGED got
  /\ UNCHANGED <<sockets, connected_clients, bc, score_state>>

\* ------------------------- predict, control, broadcast and score handlers
ScoreVals == {"absent", "'x'", "2.7"}

Commands ==
  [kind : {"predict"}, arg : {"message", "shorthand", "empty", "bad_targetY"},
   ai1 : {"absent"}, ai2 : {"absent"}, match : {"absent"}]
  \cup [kind : {"control"}, arg : {"ok", "invalid_y", "invalid_paddle"},
        ai1 : {"absent"}, ai2 : {"absent"}, match : {"absent"}]
  \cup [kind : {"broadcast"}, arg : {"message", "empty"},
        ai1 : {"absent"}, ai2 : {"absent"}, match : {"absent"}]
  \cup [kind : {"score"}, arg : {"GET", "POST other key"},
        ai1 : {"absent"}, ai2 : {"absent"}, match : {"absent"}]
  \cup [kind : {"score"}, arg : {"POST"},
        ai1 : ScoreVals, ai2 : ScoreVals, match : ScoreVals]

\* int(v) succeeds
IntOk(v) == v \in {"0", "1", "2.7"}

\* int(v)
IntOf(v) ==
  CASE v = "0" -> 0
    [] v = "1" -> 1
    [] v = "2.7" -> 2
    [] OTHER -> 0

ScorePost(cmd) == cmd.kind = "score" /\ cmd.arg # "GET"

\* `not payload` of the POST /score body
EmptyScorePayload(cmd) ==
  cmd.arg = "POST" /\ cmd.ai1 = "absent" /\ cmd.ai2 = "absent" /\ cmd.match = "absent"

\* score_state after lines 535-552
UpdatedScore(state, cmd) ==
  IF ScorePost(cmd) /\ ~EmptyScorePayload(cmd)
    THEN [ai1 |-> IF IntOk(cmd.ai1) THEN IntOf(cmd.ai1) ELSE state.ai1,
          ai2 |-> IF IntOk(cmd.ai2) THEN IntOf(cmd.ai2) ELSE state.ai2,
          match |-> IF IntOk(cmd.match) THEN IntOf(cmd.match) ELSE state.match]
    ELSE state

\* errors of lines 535-552 is not empty
ScoreErrors(cmd) ==
  \E v \in {cmd.ai1, cmd.ai2, cmd.match} : v # "absent" /\ ~IntOk(v)

\* the response of the handler when it returns before broadcasting,
\* NoResponse when it goes on to broadcast
EarlyResponse(cmd, state) ==
  CASE cmd.kind = "predict" /\ cmd.arg = "empty" ->
         [NoResponse EXCEPT !.status = 400, !.error = "invalid_or_empty_payload"]
    [] cmd.kind = "predict" /\ cmd.arg = "bad_targetY" ->
         [NoResponse EXCEPT !.status = 500, !.error = "ValueError"]
    [] cmd.kind = "control" /\ cmd.arg = "invalid_y" ->
         [NoResponse EXCEPT !.status = 400, !.error = "invalid_y"]
    [] cmd.kind = "control" /\ cmd.arg = "invalid_paddle" ->
         [NoResponse EXCEPT !.status = 400, !.error = "invalid_paddle"]
    [] cmd.kind = "broadcast" /\ cmd.arg = "empty" ->
         [NoResponse EXCEPT !.status = 400, !.error = "empty_message"]
    [] cmd.kind = "score" /\ cmd.arg = "GET" ->
         [NoResponse EXCEPT !.status = 200, !.ok = TRUE, !.score = state]
    [] ScorePost(cmd) /\ EmptyScorePayload(cmd) ->
         [NoResponse EXCEPT !.status = 400, !.error = "invalid_or_empty_payload"]
    [] ScorePost(cmd) /\ ~EmptyScorePayload(cmd) /\ ScoreErrors(cmd) ->
         [NoResponse EXCEPT !.status = 400, !.error = "validation_failed"]
    [] OTHER -> NoResponse

\* "sent" taken as the number of clients, as the docstring words it
SentCountClients(f) == Cardinality(f.snap)

\* the "sent" of the response: the counter of the send loop
SentCount(f) == f.sent

\* from the end of the send loop to the next suspension: discard the next
\* failed websocket and await its close, or return the response
BcastAfterSends(b, f, state) ==
  IF f.closing < Len(f.bad)
    THEN /\ connected_clients' = connected_clients \ {f.bad[f.closing + 1]}
         /\ bc' = [(IF f.bad[f.closing + 1] \in connected_clients
                      THEN Disturbed(bc) ELSE bc)
                   EXCEPT ![b] = [f EXCEPT !.pc = "close",
                                           !.closing = f.closing + 1]]
    ELSE /\ UNCHANGED connected_clients
         /\ bc' = [bc EXCEPT ![b] =
                     Returned([NoResponse EXCEPT
                                 !.status = 200, !.ok = TRUE,
                                 !.sent = SentCount(f),
                                 !.score = IF f.kind = "score" THEN state
                                                               ELSE NoScore])]

\* a handler that drops the pending entries
FanoutTableCleared(table) == EmptyTable

\* the pending table after the handler: none of the four handlers refers to
\* pending_captures
FanoutTable(table) == table

\* the handler up to its first `await ws.send_str`, or to its return
BcastStart(b, cmd) ==
  /\ bc[b].pc = "idle"
  /\ b > 1 => bc[b - 1].pc # "idle"
  /\ score_state' = UpdatedScore(score_state, cmd)
  /\ IF EarlyResponse(cmd, score_state') # NoResponse
       THEN /\ bc' = [bc EXCEPT ![b] = Returned(EarlyResponse(cmd, score_state'))]
            /\ UNCHANGED connected_clients
       ELSE LET f == [Idle EXCEPT !.pc = "send", !.kind = cmd.kind,
                                  !.snap = connected_clients,
                                  !.todo = connected_clients]
            IN IF f.todo = {}
                 THEN BcastAfterSends(b, f, score_state')
                 ELSE /\ bc' = [bc EXCEPT ![b] = f]
                      /\ UNCHANGED connected_clients
  /\ pending_captures' = FanoutTable(pending_captures)
  /\ routed' = NotRouted
  /\ UNCHANGED got
  /\ UNCHANGED <<sockets, futs, cap>>

\* one `await ws.send_str(text)` returns (sent) or raises (not sent)
BcastSend(b, ws, sent) ==
  /\ bc[b].pc = "send"
  /\ ws \in bc[b].todo
  /\ sent => ws \in ws_open
  /\ LET f == [bc[b] EXCEPT !.todo = @ \ {ws},
                            !.sent = IF sent THEN @ + 1 ELSE @,
                            !.bad = Bad(@, ws, sent)]
     IN IF f.todo = {}
          THEN BcastAfterSends(b, f, score_state)
          ELSE /\ bc' = [bc EXCEPT ![b] = f]
               /\ UNCHANGED connected_clients
  /\ routed' = NotRouted
  /\ UNCHANGED got
  /\ UNCHANGED <<sockets, pending_captures, futs, cap, score_state>>

\* one `await b.close()` returns: the websocket is closed
BcastClose(b) ==
  /\ bc[b].pc = "close"
  /\ sockets' = [sockets EXCEPT ![bc[b].bad[bc[b].closing]] = "closed"]
  /\ BcastAfterSends(b, bc[b], score_state)
  /\ routed' = NotRouted
  /\ UNCHANGED got
  /\ UNCHANGED <<pending_captures, futs, cap, score_state>>

\* -------------------------------------------------------- specifications
\* peers come and go
RegistryNext ==
  \/ \E ws \in DOMAIN sockets : WsConnect(ws)
  \/ \E ws \in DOMAIN sockets : WsDisconnect(ws)

WsNext ==
  \/ RegistryNext
  \/ \E d \in Deliveries : WsMessage(d[1], d[2])

CaptureNext ==
  \/ \E r \in DOMAIN cap, raw_req_id \in ReqIdVals, return_base64 \in BOOLEAN :
       CaptureStart(r, raw_req_id, return_base64)
  \/ \E r \in DOMAIN cap, ws \in DOMAIN sockets, sent \in BOOLEAN :
       CaptureSend(r, ws, sent)
  \/ \E r \in DOMAIN cap : CaptureClose(r)
  \/ \E r \in DOMAIN cap : CaptureResult(r)
  \/ \E r \in DOMAIN cap : CaptureCancelled(r)
  \/ \E r \in DOMAIN cap : CaptureTimeout(r)
  \/ \E r \in DOMAIN cap : CaptureExpire(r)

BcastNext ==
  \/ \E b \in DOMAIN bc, cmd \in Commands : BcastStart(b, cmd)
  \/ \E b \in DOMAIN bc, ws \in DOMAIN sockets, sent \in BOOLEAN :
       BcastSend(b, ws, sent)
  \/ \E b \in DOMAIN bc : BcastClose(b)

Next == WsNext \/ CaptureNext \/ BcastNext

\* the whole hub
SpecHub == InitWith(MaxConns, MaxCaptures, MaxBcasts) /\ [][Next]_vars

\* the capture flow alone
Spec == InitWith(MaxConns, MaxCaptures, 0) /\ [][WsNext \/ CaptureNext]_vars

\* the fire-and-forget commands alone.  The inbound router is left out: it
\* writes pending_captures, futs, routed and got only, none of which these
\* handlers read.
SpecFanout == InitWith(MaxPeers, 0, MaxBcasts) /\ [][RegistryNext \/ BcastNext]_vars

\* the replies and commands tried when capture requests and fire-and-forget
\* commands run side by side
HubReplies ==
  {d \in Deliveries :
     /\ d[1].type = "image_capture" /\ d[1].captureId = "'1'"
     /\ d[1].requestId = "None" /\ d[1].captureTimestamp = "None"
     /\ d[1].image \in {"small", "big"} /\ d[2]}

HubCommands ==
  {cmd \in Commands :
     /\ cmd.arg \in {"message", "ok", "empty", "GET", "POST"}
     /\ cmd.ai1 \in {"absent", "2.7"} /\ cmd.ai2 = "absent"
     /\ cmd.match \in {"absent", "'x'"}}

HubNext ==
  \/ RegistryNext
  \/ \E d \in HubReplies : WsMessage(d[1], d[2])
  \/ CaptureNext
  \/ \E b \in DOMAIN bc, cmd \in HubCommands : BcastStart(b, cmd)
  \/ \E b \in DOMAIN bc, ws \in DOMAIN sockets, sent \in BOOLEAN :
       BcastSend(b, ws, sent)
  \/ \E b \in DOMAIN bc : BcastClose(b)

\* capture requests and fire-and-forget commands side by side
SpecMixed == InitWith(MaxConns, MaxCaptures, MaxBcasts) /\ [][HubNext]_vars

\* the capture flow with several peers
PeersNext ==
  \/ RegistryNext
  \/ \E d \in HubReplies : WsMessage(d[1], d[2])
  \/ CaptureNext

SpecPeers == InitWith(MaxPeers, MaxCaptures, 0) /\ [][PeersNext]_vars

\* the steps of capture request r after its start: each of them is a
\* suspended await that the event loop resumes
CaptureResume(r) ==
  \/ \E ws \in DOMAIN sockets, sent \in BOOLEAN : CaptureSend(r, ws, sent)
  \/ CaptureClose(r)
  \/ CaptureResult(r)
  \/ CaptureCancelled(r)
  \/ CaptureTimeout(r)
  \/ CaptureExpire(r)

\* the capture flow when every send and close completes or fails, and every
\* wait_for returns or times out (its timeout is finite, line 195)
SpecLive ==
  /\ InitWith(MaxConns, MaxCaptures, 0)
  /\ [][WsNext \/ CaptureNext]_vars
  /\ \A r \in 1..MaxCaptures : WF_vars(CaptureResume(r))

\* ------------------------------------------------------------ properties
\* a capture request that registered a waiter (line 225)
Registered(r) == futs[r].state # "none"

\* C1: every capture request that registered a waiter ends with the success
\* response or the timeout response, never with anything else (an internal
\* fault, or no response at all).
C1_SuccessOrTimeout ==
  \A r \in DOMAIN cap :
    (cap[r].pc = "done" /\ Registered(r)) => cap[r].resp.status \in {200, 504}

\* C2: a request whose own waiter was resolved by a stored reply while it was
\* in flight (registered, hence written to a peer, and not timed out) ends
\* with the success response carrying that payload, and the payload is the
\* base64 text exactly when returnBase64 was requested.
C2_RoundTrip ==
  \A r \in DOMAIN cap :
    futs[r].state = "result" =>
      /\ cap[r].pc = "done" =>
           (cap[r].resp.status = 200 /\ cap[r].resp.result = futs[r].result)
      /\ cap[r].pc # "done" =>
           futs[r].result.kind =
             (IF cap[r].return_base64 THEN "image_base64" ELSE "filename")

\* C3: a capture request issued while the registry is empty returns
\* no_connected_clients (status 503, not the 504 of a timeout), registers
\* nothing, sends nothing, and leaves the table and the registry unchanged.
C3_NoClientsNoWaiter ==
  [][\A r \in DOMAIN cap :
       (cap[r].pc = "idle" /\ cap'[r].pc # "idle" /\ connected_clients = {}) =>
         /\ cap'[r].pc = "done"
         /\ cap'[r].resp.status = 503
         /\ cap'[r].resp.error = "no_connected_clients"
         /\ pending_captures' = pending_captures
         /\ futs' = futs
         /\ connected_clients' = connected_clients]_vars

C3_Witness ==
  \E r \in DOMAIN cap :
    /\ cap[r].resp.status = 503
    /\ ~Registered(r)
    /\ connected_clients = {}
    /\ DOMAIN pending_captures # {}

\* C4: a capture request waits only on the waiter it registered itself, so
\* the requests answered with success are never more than the waiters that
\* replies resolved.
C4_OwnWaiterOnly ==
  /\ \A r \in DOMAIN cap : cap[r].pc = "wait" => cap[r].fut = r
  /\ Cardinality({r \in DOMAIN cap : cap[r].resp.status = 200})
       <= Cardinality({r \in DOMAIN futs : futs[r].state = "result"})

\* C5: when the wait of a capture request has timed out, the request returns
\* the timeout response carrying its identifier, and its key is not in the
\* table when the response is produced.
C5_TimeoutFreesKey ==
  [][\A r \in DOMAIN cap :
       (cap[r].pc = "expired" /\ cap'[r] # cap[r]) =>
         /\ cap'[r].pc = "done"
         /\ cap'[r].resp.status = 504
         /\ cap'[r].resp.error = "timeout_waiting_for_capture"
         /\ cap'[r].resp.requestId = cap[r].req_id
         /\ ReqKey(cap[r]) \notin DOMAIN pending_captures']_vars

C5_Witness ==
  \E r \in DOMAIN cap :
    /\ cap[r].resp.status = 504
    /\ got[r] = "none"
    /\ Str(cap[r].resp.requestId) \notin DOMAIN pending_captures
    /\ routed = NotRouted

\* C6: once a capture request with an identifier has timed out, no later reply
\* naming that identifier resolves a waiter.
C6_LateReplyDropped ==
  [][\A f \in DOMAIN futs :
       (futs[f].state # "result" /\ futs'[f].state = "result") =>
         ~ \E r \in DOMAIN cap :
             /\ cap[r].resp.status = 504
             /\ Str(cap[r].resp.requestId) = Str(futs'[f].result.requestId)]_vars

\* C7: routing an image reply none of whose identifiers is a key of the table
\* resolves no waiter, leaves the table unchanged and changes no capture
\* request.
C7_UnmatchedReplyIsNoOp ==
  [][(routed'.log # "none" /\ routed'.keys \cap DOMAIN pending_captures = {})
       => (pending_captures' = pending_captures /\ futs' = futs /\ cap' = cap)]_vars

C7_Witness ==
  /\ routed.log = "unmatched"
  /\ DOMAIN pending_captures # {}
  /\ routed.keys # {}
  /\ routed.keys \cap DOMAIN pending_captures = {}
  /\ \E r \in DOMAIN cap : cap[r].pc = "wait" /\ futs[cap[r].fut].state = "pending"

\* C8: an oversized reply changes neither the table nor any waiter, and a
\* request whose replies, routed while it was in flight, were all oversized
\* ends with the timeout response.
C8_OversizedMeansTimeout ==
  /\ \A d \in Deliveries :
       TooLarge(d[1].image) =>
         /\ Route(d[1], d[2], pending_captures, futs).table = pending_captures
         /\ Route(d[1], d[2], pending_captures, futs).futs = futs
  /\ \A r \in DOMAIN cap :
       (cap[r].pc = "done" /\ got[r] = "oversized") => cap[r].resp.status = 504

\* C9: a result cell receives a payload only while it is unset, and once it
\* holds a payload no later step changes it.
C9_ResolvedAtMostOnce ==
  [][\A f \in DOMAIN futs :
       /\ futs[f].state = "result" => futs'[f] = futs[f]
       /\ (futs'[f].state = "result" /\ futs[f].state # "result")
            => futs[f].state = "pending"]_vars

C9_Witness ==
  /\ routed.log = "unmatched"
  /\ \E f \in DOMAIN futs :
       futs[f].state = "result" /\ Str(futs[f].result.requestId) \in routed.keys

C11_EventuallyResponds ==
  \A r \in 1..MaxCaptures :
    InFlight(cap[r]) ~> (cap[r].pc = "done" /\ cap[r].resp.status \in {200, 500, 503, 504})

\* C12: the counters change only in a step that starts a POST /score call,
\* and that call broadcasts the score_update (it suspends in its first send,
\* or with no peer connected returns ok with the new counters); a call
\* answered with validation_failed has changed no counter and sends nothing.
C12_ScoreChangeBroadcasts ==
  [][/\ score_state' # score_state =>
          \E b \in DOMAIN bc :
            /\ bc[b].pc = "idle"
            /\ \/ bc'[b].pc = "send" /\ bc'[b].kind = "score"
               \/ /\ bc'[b].pc = "done"
                  /\ bc'[b].resp.status = 200
                  /\ bc'[b].resp.score = score_state'
     /\ \A b \in DOMAIN bc :
          (bc[b].pc = "idle" /\ bc'[b].resp.error = "validation_failed") =>
            (bc'[b].pc = "done" /\ score_state' = score_state)]_vars

\* C13: a step of a fire-and-forget handler (its start, one of its sends, one
\* of its closes) leaves the pending table, every waiter and every capture
\* request unchanged, and the handler never enters a wait.
C13_FanoutLeavesTable ==
  [][(\E b \in DOMAIN bc :
        \/ bc'[b].pc # bc[b].pc
        \/ bc'[b].todo # bc[b].todo
        \/ bc'[b].closing # bc[b].closing)
       => /\ pending_captures' = pending_captures
          /\ futs' = futs
          /\ cap' = cap
          /\ \A b \in DOMAIN bc : bc'[b].pc \in {"idle", "send", "close", "done"}]_vars

C13_Witness ==
  /\ \E b \in DOMAIN bc : bc[b].pc = "close"
  /\ \E r \in DOMAIN cap : cap[r].pc = "wait" /\ futs[cap[r].fut].state = "pending"
  /\ DOMAIN pending_captures # {}

\* the key under which the request taking this step is or gets registered
ActingKey(r) == IF cap[r].pc = "idle" THEN KeyOf(cap'[r]) ELSE KeyOf(cap[r])

\* C14: while request r is in flight under key B, a step that is not its own
\* (a routed message that does not name B, whatever its fate; a step of a
\* request with another key, its timeout and its failed sends included; a
\* connect or disconnect) leaves the entry under B, the waiter of r and the
\* waiter of that entry as they were.
C14_DistinctIdsIndependent ==
  [][\A r \in DOMAIN cap :
       (/\ InFlight(cap[r])
        /\ cap'[r] = cap[r]
        /\ KeyOf(cap[r]) \notin routed'.keys
        /\ \A r2 \in DOMAIN cap :
             cap'[r2] # cap[r2] => ActingKey(r2) # KeyOf(cap[r]))
         => /\ (KeyOf(cap[r]) \in DOMAIN pending_captures')
                 = (KeyOf(cap[r]) \in DOMAIN pending_captures)
            /\ TableGet(pending_captures', KeyOf(cap[r]))
                 = TableGet(pending_captures, KeyOf(cap[r]))
            /\ futs'[r] = futs[r]
            /\ futs'[cap[r].fut] = futs[cap[r].fut]]_vars

C14_Witness ==
  \E r, r2 \in DOMAIN cap :
    /\ r < r2
    /\ cap[r].pc = "wait" /\ futs[r].state = "pending"
    /\ TableGet(pending_captures, KeyOf(cap[r])).future = r
    /\ cap[r2].pc = "done" /\ cap[r2].resp.status = 504
    /\ Str(cap[r2].resp.requestId) # KeyOf(cap[r])
    /\ routed.log \in {"too large", "decode failed", "save failed"}
    /\ routed.keys # {} /\ KeyOf(cap[r]) \notin routed.keys

\* the frame took a step of its broadcast
Stepped(f, g) == g.pc # f.pc \/ g.todo # f.todo \/ g.closing # f.closing

\* C15: while a capture request is in its broadcast, each of its send steps
\* attempts one not yet attempted peer of its snapshot, and steps of others
\* (connects and disconnects included) leave snapshot, remaining peers and
\* failed list alone; every attempted peer is counted once, as sent or as
\* failed; a step of the broadcast adds nothing to the registry and removes
\* at most the failed peer it discards; a peer that connects enters the
\* registry and is in no snapshot of a broadcast in progress.
C15_SnapshotInsulated ==
  [][/\ \A r \in DOMAIN cap :
          cap[r].pc \in {"send", "close"} =>
            /\ (Stepped(cap[r], cap'[r]) /\ cap[r].pc = "send") =>
                 \E ws \in cap[r].todo \cap cap[r].snap :
                   cap'[r].todo = cap[r].todo \ {ws}
            /\ ~Stepped(cap[r], cap'[r]) => cap'[r] = cap[r]
            /\ InFlight(cap'[r]) =>
                 /\ cap'[r].snap = cap[r].snap
                 /\ Range(cap'[r].bad) \subseteq cap'[r].snap \ cap'[r].todo
                 /\ cap'[r].sent + Len(cap'[r].bad)
                      = Cardinality(cap'[r].snap \ cap'[r].todo)
            /\ Stepped(cap[r], cap'[r]) =>
                 /\ connected_clients' \subseteq connected_clients
                 /\ connected_clients \ connected_clients' \subseteq
                      (IF cap'[r].pc = "close"
                         THEN {cap'[r].bad[cap'[r].closing]} ELSE {})
     /\ \A ws \in DOMAIN sockets :
          (sockets[ws] = "new" /\ sockets'[ws] = "open") =>
            /\ ws \in connected_clients'
            /\ \A r \in DOMAIN cap : ws \notin cap'[r].snap]_vars

C15_Witness ==
  \E r \in DOMAIN cap, gone \in DOMAIN sockets, new \in DOMAIN sockets :
    /\ cap[r].pc = "close"
    /\ gone \in cap[r].snap /\ sockets[gone] = "closed"
    /\ new \notin cap[r].snap /\ new \in connected_clients

\* C16: the step that starts a capture request puts its entry in the table
\* before anything is sent; every send is made by a request that has
\* registered; and a request waits (or has timed out) only when no peer of
\* its snapshot is left to send to and every failed peer was closed.
C16_RegisterSendWait ==
  [][\A r \in DOMAIN cap :
       /\ (cap[r].pc = "idle" /\ InFlight(cap'[r])) =>
            /\ KeyOf(cap'[r]) \in DOMAIN pending_captures'
            /\ pending_captures'[KeyOf(cap'[r])].future = r
            /\ futs'[r] = NewFuture
            /\ cap'[r].todo = cap'[r].snap /\ cap'[r].sent = 0 /\ cap'[r].bad = <<>>
       /\ (cap[r].pc = "send" /\ cap'[r].todo # cap[r].todo) => Registered(r)
       /\ cap'[r].pc \in {"wait", "expired"} =>
            (cap'[r].todo = {} /\ cap'[r].closing = Len(cap'[r].bad))]_vars

C16_Witness ==
  \E r \in DOMAIN cap :
    /\ cap[r].pc = "wait"
    /\ cap[r].sent = 1 /\ Len(cap[r].bad) = 1
    /\ TableGet(pending_captures, KeyOf(cap[r])).future = r

\* C17: in every table and set of waiters that a step produces, a message
\* whose file cannot be written would remove no entry and resolve no waiter,
\* whatever it names; a routed message whose save failed changed neither; and
\* a waiter gets its result only in a step of the router that saved the file
\* of the message.
C17_SaveBeforeResolve ==
  [][/\ (pending_captures' # pending_captures \/ futs' # futs) =>
          \A data \in Messages :
            /\ Route(data, FALSE, pending_captures', futs').table = pending_captures'
            /\ Route(data, FALSE, pending_captures', futs').futs = futs'
     /\ routed'.log = "save failed" =>
          (pending_captures' = pending_captures /\ futs' = futs)
     /\ (\E f \in DOMAIN futs :
           futs'[f].state = "result" /\ futs[f].state # "result")
          => routed'.log = "resolved"]_vars

C17_Witness ==
  /\ routed.log = "save failed"
  /\ \E r \in DOMAIN cap :
       /\ cap[r].pc = "wait" /\ futs[r].state = "pending"
       /\ KeyOf(cap[r]) \in routed.keys
       /\ TableGet(pending_captures, KeyOf(cap[r])).future = r

\* the waiters that get their result in the step from fs to gs
NewlyResolved(fs, gs) ==
  {f \in DOMAIN fs : gs[f].state = "result" /\ fs[f].state # "result"}

\* C18: no step resolves more than one waiter; and a routed message whose
\* primary identifier can resolve a waiter resolves that waiter only and pops
\* the primary key only (the alias is not tried).
C18_OneReplyOneWaiter ==
  [][/\ Cardinality(NewlyResolved(futs, futs')) <= 1
     /\ (routed'.log = "resolved"
           /\ Resolves(TableGet(pending_captures, routed'.primary), futs)) =>
          /\ NewlyResolved(futs, futs')
               = {TableGet(pending_captures, routed'.primary).future}
          /\ DOMAIN pending_captures'
               = DOMAIN pending_captures \ {routed'.primary}]_vars

C18_Witness ==
  /\ routed.log = "resolved"
  /\ Cardinality(routed.keys) = 2
  /\ \E key \in routed.keys \ {routed.primary} :
       /\ key \in DOMAIN pending_captures
       /\ futs[pending_captures[key].future].state = "pending"
  /\ \E f \in DOMAIN futs :
       futs[f].state = "result" /\ Str(futs[f].result.requestId) = routed.primary

\* C19: every key of the table is the key of a capture request in flight, and
\* the entry registered by a request that has returned success, timeout or
\* internal fault is not in the table.
C19_NoOrphanedWaiters ==
  /\ \A key \in DOMAIN pending_captures :
       \E r \in DOMAIN cap : InFlight(cap[r]) /\ KeyOf(cap[r]) = key
  /\ \A r \in DOMAIN cap :
       (cap[r].pc = "done" /\ cap[r].resp.status \in {200, 500, 504}) =>
         \A key \in DOMAIN pending_captures : pending_captures[key].future # r

C19_Witness ==
  /\ \E r \in DOMAIN cap :
       cap[r].pc = "done" /\ cap[r].resp.status = 504 /\ futs[r].state = "cancelled"
  /\ \E r \in DOMAIN cap :
       cap[r].pc = "done" /\ cap[r].resp.status = 200 /\ futs[r].state = "result"
  /\ pending_captures = EmptyTable

\* C20: the timeout of a capture request cancels no waiter but its own, and
\* its cleanup removes no entry but the one it registered and changes no
\* waiter of another request.
C20_ExpiryTouchesOwnEntryOnly ==
  [][\A r \in DOMAIN cap :
       /\ (cap[r].pc = "wait" /\ cap'[r].pc = "expired") =>
            \A f \in DOMAIN futs \ {r} : futs'[f] = futs[f]
       /\ (cap[r].pc = "expired" /\ cap'[r].pc = "done") =>
            /\ \A f \in DOMAIN futs \ {r} : futs'[f] = futs[f]
            /\ \A key \in DOMAIN pending_captures \ DOMAIN pending_captures' :
                 pending_captures[key].future = r]_vars

\* C21: the step in which a capture request registers its waiter takes a
\* snapshot that is the registry of that moment and holds at least one peer,
\* and suspends in its first send; a request in flight never has an empty
\* snapshot, even when every peer has left the registry since.
C21_SnapshotNonEmpty ==
  [][\A r \in DOMAIN cap :
       /\ (futs[r].state = "none" /\ futs'[r].state # "none") =>
            /\ cap'[r].pc = "send"
            /\ cap'[r].snap # {}
            /\ cap'[r].snap = connected_clients
            /\ cap'[r].todo = cap'[r].snap
            /\ connected_clients' = connected_clients
       /\ InFlight(cap'[r]) => cap'[r].snap # {}]_vars

C21_Witness ==
  \E r \in DOMAIN cap :
    /\ cap[r].pc = "send"
    /\ Registered(r)
    /\ Cardinality(cap[r].snap) = 2
    /\ cap[r].todo = cap[r].snap
    /\ connected_clients = {}

====
